---- MODULE Spec2Model ----
(***************************************************************************)
(* Model of the instrument drivers of fwp_lab_instruments.py: the          *)
(* function generator Gen (config_output cache, re_config_output, output)  *)
(* and the oscilloscope Osci (config_measure cache, re_config_measure).    *)
(* Model of the file name helpers of fwp_save.py: new_name and free_file.  *)
(*                                                                         *)
(* Conventions                                                             *)
(*  - A Python str is a sequence of one-character strings, so that         *)
(*    str.lower() and the substring test `key in s` are computed.          *)
(*  - None is the empty tuple <<>> for an optional number (a number v is   *)
(*    <<v>>) and the one-element tuple NoneStr for an optional str.        *)
(*  - Numbers are fixed-point with two decimals: 7526 stands for 75.26.    *)
(*  - A Python dict is a function whose DOMAIN is the set of its keys.     *)
(*    config_output has int keys (channels) and may get the str key        *)
(*    'Duty Cycle'; the int-keyed part is config_output, the str-keyed     *)
(*    part is config_output_str.                                           *)
(***************************************************************************)
EXTENDS Integers, Sequences, FiniteSets, TLC

(* ------------------------------ bounds -------------------------------- *)

\* Largest number of output channels a generator is constructed with.
MaxChannels == 2

\* A transport failure hits the k-th transport operation of a call, k in 1..MaxFail.
MaxFail == 2

\* Number of calls in a run: one call and its repetitions.
MaxCalls == 2

\* The strings tried with the two recognition algorithms are made of at most
\* this many pieces.
MaxPieces == 2

\* Gen calls made one after the other on one instance.
MaxSeq == 2

\* Paths that may exist when a function of fwp_save is called.
MaxFiles == 3

(* ------------------------------ strings ------------------------------- *)

UpperCase == <<"A","B","C","D","E","F","G","H","I","J","K","L","M",
               "N","O","P","Q","R","S","T","U","V","W","X","Y","Z">>

LowerCase == <<"a","b","c","d","e","f","g","h","i","j","k","l","m",
               "n","o","p","q","r","s","t","u","v","w","x","y","z">>

\* str.lower() on one character
LowerChar(c) ==
    IF \E i \in 1..Len(UpperCase) : UpperCase[i] = c
    THEN LowerCase[CHOOSE i \in 1..Len(UpperCase) : UpperCase[i] = c]
    ELSE c

\* str.lower()
Lower(s) == [i \in 1..Len(s) |-> LowerChar(s[i])]

\* Python's `key in s` for two str: key is a contiguous substring of s
Contains(key, s) ==
    \E i \in 0..(Len(s) - Len(key)) :
        \A j \in 1..Len(key) : s[i + j] = key[j]

Max(S) == CHOOSE x \in S : \A y \in S : y <= x

NoneStr == <<"<None>">>

None == <<>>

(* ----------------------- Gen: waveform vocabulary --------------------- *)

SIN  == <<"S","I","N">>
PULS == <<"P","U","L","S">>
RAMP == <<"R","A","M","P">>
LOR  == <<"L","O","R">>
SINC == <<"S","I","N","C">>
GAUS == <<"G","A","U","S">>

\* dic of Gen.re_config_output, in declaration (= iteration) order
GenDic ==
    << [key |-> <<"s","i","n">>,     value |-> SIN],
       [key |-> <<"s","q","u">>,     value |-> PULS],
       [key |-> <<"p","u","l">>,     value |-> PULS],
       [key |-> <<"t","r","i">>,     value |-> RAMP],
       [key |-> <<"r","a","m">>,     value |-> RAMP],
       [key |-> <<"l","o","r">>,     value |-> LOR],
       [key |-> <<"s","i","n","c">>, value |-> SINC],
       [key |-> <<"g","a","u">>,     value |-> GAUS] >>

GenDicValues == {GenDic[i].value : i \in 1..Len(GenDic)}

\* for key, value in dic.items(): if key in waveform: waveform = value
\* (the loop variable it tests is the one it overwrites)
RECURSIVE GenDicScan(_, _)
GenDicScan(waveform, i) ==
    IF i > Len(GenDic) THEN waveform
    ELSE GenDicScan(IF Contains(GenDic[i].key, waveform)
                    THEN GenDic[i].value ELSE waveform, i + 1)

\* Faulty variant: an unrecognised waveform is kept as typed instead of defaulting.
RecognizeWaveformNoDefault(waveform, cached) ==
    IF waveform = NoneStr THEN cached
    ELSE LET low == Lower(waveform) IN
         IF Contains(<<"c">>, low) THEN SINC ELSE GenDicScan(low, 1)

\* "the algorithm to recognize the waveform" of Gen.re_config_output
RecognizeWaveform(waveform, cached) ==
    IF waveform # NoneStr
    THEN LET low == Lower(waveform) IN
         IF Contains(<<"c">>, low) THEN SINC
         ELSE LET w == GenDicScan(low, 1) IN
              IF w \notin GenDicValues THEN SIN ELSE w
    ELSE cached

(* --------------------------- Gen: the device -------------------------- *)

Fields == <<"Waveform", "Frequency", "Amplitude", "Offset", "Phase",
            "Duty Cycle", "Symmetry">>

EmptyDict == [k \in {} |-> 0]

\* What one output channel of the generator holds when the driver connects:
\* the instrument's default settings, with some shape and output status.
\* Status is 0 or 1.
DevChannel(shape, stat) ==
    [k \in {"Status", "Waveform", "Frequency", "Amplitude", "Offset",
            "Phase", "Duty Cycle", "Symmetry"} |->
        CASE k = "Status"     -> stat
          [] k = "Waveform"   -> shape
          [] k = "Frequency"  -> 100000
          [] k = "Amplitude"  -> 100
          [] k = "Offset"     -> 0
          [] k = "Phase"      -> 0
          [] k = "Duty Cycle" -> 5000
          [] k = "Symmetry"   -> 5000]

DevShapes == {SIN, PULS, RAMP}

\* fwp_string.find_1st_number: the number a response spells.  A response is
\* modelled by that number.
find_1st_number(aux) == aux

\* '{:.1f}'.format(x): x rounded to one decimal (half to even), x >= 0
Fmt1f(x) ==
    LET q == x \div 10
        m == x % 10
    IN  IF m < 5 THEN q * 10
        ELSE IF m > 5 THEN (q + 1) * 10
        ELSE IF q % 2 = 0 THEN q * 10 ELSE (q + 1) * 10

\* A write command on the transport: a token-valued or a number-valued one.
TokCmd(field, channel, tok) == [field |-> field, ch |-> channel, tok |-> tok]

NumCmd(field, channel, num) == [field |-> field, ch |-> channel, num |-> num]

CmdValue(cmd) == IF "tok" \in DOMAIN cmd THEN cmd.tok ELSE cmd.num

\* The device stores the value of a write it receives for one of its channels.
DevApply(dev, cmd) ==
    IF cmd.ch \in DOMAIN dev
    THEN [dev EXCEPT ![cmd.ch][cmd.field] = CmdValue(cmd)]
    ELSE dev

RECURSIVE DevApplyAll(_, _)
DevApplyAll(dev, cmds) ==
    IF cmds = <<>> THEN dev
    ELSE DevApplyAll(DevApply(dev, Head(cmds)), Tail(cmds))

(* ----------------------- Gen.get_config_output ------------------------ *)

\* One channel's dict.  dcyc_ok / symm_ok: the PULS:DCYC? / RAMP:SYMM? query
\* answers (the try succeeds) or raises (the except runs).  When the duty
\* cycle query answers, its value goes to configuration['Duty Cycle'], not to
\* configuration[channel]['Duty Cycle'].
get_config_channel(dev, channel, dcyc_ok, symm_ok) ==
    [k \in ({"Status", "Waveform", "Frequency", "Amplitude", "Offset",
             "Phase", "Symmetry"}
            \cup (IF dcyc_ok THEN {} ELSE {"Duty Cycle"})) |->
        CASE k = "Status"     -> (dev[channel]["Status"] # 0)
          [] k = "Waveform"   -> dev[channel]["Waveform"]
          [] k = "Duty Cycle" -> 5000
          [] k = "Symmetry"   -> IF symm_ok
                                 THEN find_1st_number(dev[channel]["Symmetry"])
                                 ELSE 5000
          [] OTHER            -> find_1st_number(dev[channel][k])]

\* The returned dict: its int-keyed part and its str-keyed part.
get_config_output(dev, n, dcyc_ok, symm_ok) ==
    [chan |-> [channel \in 1..n |->
                  get_config_channel(dev, channel, dcyc_ok, symm_ok)],
     str  |-> IF dcyc_ok
              THEN [k \in {"Duty Cycle"} |->
                       find_1st_number(dev[n]["Duty Cycle"])]
              ELSE EmptyDict]

(* ------------------------ Gen.re_config_output ------------------------ *)

\* The state of a call in progress: the cache, the write commands that went
\* through, the write that raised (if any), how the call ended ("ok" or the
\* exception that left it) and, for KeyError and ValueError, the block that
\* raised it.
StartRun(cfg) ==
    [cfg |-> cfg, cmds |-> <<>>, failed |-> <<>>, outcome |-> "ok", at |-> "",
     channel |-> 0, waveform |-> NoneStr]

\* self.gen.write(cmd): the fail-th transport operation of the call raises.
GenWrite(r, cmd, fail) ==
    IF Len(r.cmds) + 1 = fail
    THEN [r EXCEPT !.failed = <<cmd>>, !.outcome = "TransportError"]
    ELSE [r EXCEPT !.cmds = Append(@, cmd)]

\* Faulty variant: the cache is overwritten before the write is attempted.
SetFieldCacheFirst(r, channel, field, value, cmd, fail) ==
    IF field \notin DOMAIN r.cfg[channel]
    THEN [r EXCEPT !.outcome = "KeyError", !.at = field]
    ELSE IF r.cfg[channel][field] # value
    THEN [GenWrite(r, cmd, fail) EXCEPT !.cfg[channel][field] = value]
    ELSE r

\* Faulty variant: the write is sent but the cache entry is not overwritten.
SetFieldNoCache(r, channel, field, value, cmd, fail) ==
    IF field \notin DOMAIN r.cfg[channel]
    THEN [r EXCEPT !.outcome = "KeyError", !.at = field]
    ELSE IF r.cfg[channel][field] # value
    THEN GenWrite(r, cmd, fail)
    ELSE r

\* Faulty variant: the write is sent whether or not the value differs.
SetFieldAlways(r, channel, field, value, cmd, fail) ==
    IF field \notin DOMAIN r.cfg[channel]
    THEN [r EXCEPT !.outcome = "KeyError", !.at = field]
    ELSE LET w == GenWrite(r, cmd, fail) IN
         IF w.outcome = "ok"
         THEN [w EXCEPT !.cfg[channel][field] = value]
         ELSE w

\* if self.config_output[channel][field] != value:
\*     self.gen.write(cmd); self.config_output[channel][field] = value
SetField(r, channel, field, value, cmd, fail) ==
    IF field \notin DOMAIN r.cfg[channel]
    THEN [r EXCEPT !.outcome = "KeyError", !.at = field]
    ELSE IF r.cfg[channel][field] # value
    THEN LET w == GenWrite(r, cmd, fail) IN
         IF w.outcome = "ok"
         THEN [w EXCEPT !.cfg[channel][field] = value]
         ELSE w
    ELSE r

\* if channel not in range(1, self.nchannels+1): channel = 1
CoerceChannel(channel, n) == IF channel \notin 1..n THEN 1 ELSE channel

\* The waveform block: recognise, then compare and write.
StepWaveform(r, n, a, fail) ==
    LET channel  == CoerceChannel(a.channel, n)
        waveform == RecognizeWaveform(a.waveform, r.cfg[channel]["Waveform"])
        r1       == [r EXCEPT !.channel = channel, !.waveform = waveform]
    IN  SetField(r1, channel, "Waveform", waveform,
                 TokCmd("Waveform", channel, waveform), fail)

\* Faulty variant: a field given as None is set to 0.
StepNumberNoneAsZero(r, field, x, fail) ==
    IF r.outcome # "ok" THEN r
    ELSE LET v == IF x = None THEN 0 ELSE x[1]
         IN  SetField(r, r.channel, field, v, NumCmd(field, r.channel, v), fail)

\* The frequency, amplitude, offset and phase blocks: if x is not None: ...
StepNumber(r, field, x, fail) ==
    IF r.outcome # "ok" \/ x = None THEN r
    ELSE SetField(r, r.channel, field, x[1],
                  NumCmd(field, r.channel, x[1]), fail)

\* Faulty variant: a value the waveform does not allow is skipped, not refused.
StepGatedSkips(r, field, required, x, fail) ==
    IF r.outcome # "ok" \/ x = None \/ r.waveform # required THEN r
    ELSE SetField(r, r.channel, field, x[1],
                  NumCmd(field, r.channel, Fmt1f(x[1])), fail)

\* The duty cycle and symmetry blocks: raise ValueError unless the waveform of
\* this call is the required one, else compare and write with one decimal.
StepGated(r, field, required, x, fail) ==
    IF r.outcome # "ok" \/ x = None THEN r
    ELSE IF r.waveform # required THEN [r EXCEPT !.outcome = "ValueError", !.at = field]
    ELSE SetField(r, r.channel, field, x[1],
                  NumCmd(field, r.channel, Fmt1f(x[1])), fail)

\* Faulty variant: duty cycle and symmetry are validated against the waveform cached
\* when the call is entered, before the waveform block runs.
re_config_output_GateAtEntry(r, n, a, fail) ==
    LET entry == r.cfg[CoerceChannel(a.channel, n)]["Waveform"]
        r1 == StepWaveform(r, n, a, fail)
        r2 == StepNumber(r1, "Frequency", a.frequency, fail)
        r3 == StepNumber(r2, "Amplitude", a.amplitude, fail)
        r4 == StepNumber(r3, "Offset", a.offset, fail)
        r5 == StepNumber(r4, "Phase", a.phase, fail)
        r6 == StepGated([r5 EXCEPT !.waveform = entry],
                        "Duty Cycle", PULS, a.duty_cycle, fail)
    IN  StepGated(r6, "Symmetry", RAMP, a.symmetry, fail)

\* Faulty variant: duty cycle and symmetry are validated before anything is
\* written.
re_config_output_GateFirst(r, n, a, fail) ==
    LET channel  == CoerceChannel(a.channel, n)
        waveform == RecognizeWaveform(a.waveform, r.cfg[channel]["Waveform"])
        r0 == [r EXCEPT !.channel = channel, !.waveform = waveform]
        r1 == StepWaveform(r, n, a, fail)
        r2 == StepNumber(r1, "Frequency", a.frequency, fail)
        r3 == StepNumber(r2, "Amplitude", a.amplitude, fail)
        r4 == StepNumber(r3, "Offset", a.offset, fail)
        r5 == StepNumber(r4, "Phase", a.phase, fail)
        r6 == StepGated(r5, "Duty Cycle", PULS, a.duty_cycle, fail)
    IN  IF a.duty_cycle # None /\ waveform # PULS
        THEN [r0 EXCEPT !.outcome = "ValueError", !.at = "Duty Cycle"]
        ELSE IF a.symmetry # None /\ waveform # RAMP
        THEN [r0 EXCEPT !.outcome = "ValueError", !.at = "Symmetry"]
        ELSE StepGated(r6, "Symmetry", RAMP, a.symmetry, fail)

re_config_output(r, n, a, fail) ==
    LET r1 == StepWaveform(r, n, a, fail)
        r2 == StepNumber(r1, "Frequency", a.frequency, fail)
        r3 == StepNumber(r2, "Amplitude", a.amplitude, fail)
        r4 == StepNumber(r3, "Offset", a.offset, fail)
        r5 == StepNumber(r4, "Phase", a.phase, fail)
        r6 == StepGated(r5, "Duty Cycle", PULS, a.duty_cycle, fail)
    IN  StepGated(r6, "Symmetry", RAMP, a.symmetry, fail)

(* ----------------------------- Gen.output ----------------------------- *)

\* if channel not in [1, 2]: channel = 1
OutputChannel(channel) == IF channel \notin {1, 2} THEN 1 ELSE channel

\* Faulty variant: the status is cached before it is written.
StepStatusCacheFirst(r, channel, status, fail) ==
    IF r.outcome # "ok" THEN r
    ELSE IF channel \notin DOMAIN r.cfg
    THEN [r EXCEPT !.outcome = "KeyError", !.at = "Status"]
    ELSE GenWrite([r EXCEPT !.cfg[channel]["Status"] = status],
                  NumCmd("Status", channel, IF status THEN 1 ELSE 0), fail)

\* self.gen.write('OUTP{}:STAT {}'); self.config_output[channel]['Status'] = ...
StepStatus(r, channel, status, fail) ==
    IF r.outcome # "ok" THEN r
    ELSE LET w == GenWrite(r, NumCmd("Status", channel,
                                     IF status THEN 1 ELSE 0), fail)
         IN  IF w.outcome # "ok" THEN w
             ELSE IF channel \notin DOMAIN w.cfg
             THEN [w EXCEPT !.outcome = "KeyError", !.at = "Status"]
             ELSE [w EXCEPT !.cfg[channel]["Status"] = status]

\* Faulty variant: the status is written before the configuration.
output_StatusFirst(r, n, status, a, fail) ==
    LET channel == OutputChannel(a.channel)
        r1 == StepStatus(r, channel, status, fail)
    IN  IF r1.outcome # "ok" THEN r1
        ELSE re_config_output(r1, n, [a EXCEPT !.channel = channel], fail)

output(r, n, status, a, fail) ==
    LET channel == OutputChannel(a.channel)
        r1 == re_config_output(r, n, [a EXCEPT !.channel = channel], fail)
    IN  StepStatus(r1, channel, status, fail)

(* ------------------------ Osci: measurement type ---------------------- *)

\* dic of Osci.re_config_measure, in declaration (= iteration) order
OsciDic ==
    << [key |-> <<"m","e","a","n">>,     value |-> <<"M","E","A","N">>],
       [key |-> <<"m","i","n">>,         value |-> <<"M","I","N","I">>],
       [key |-> <<"m","a","x">>,         value |-> <<"M","A","X","I">>],
       [key |-> <<"f","r","e","q">>,     value |-> <<"F","R","E","Q">>],
       [key |-> <<"p","e","r">>,         value |-> <<"P","E","R">>],
       [key |-> <<"r","m","s">>,         value |-> <<"R","M","S">>],
       [key |-> <<"p","k","2">>,         value |-> <<"P","K","2">>],
       [key |-> <<"a","m","p">>,         value |-> <<"P","K","2">>],
       [key |-> <<"p","h">>,             value |-> <<"P","H","A">>],
       [key |-> <<"c","r","m","s">>,     value |-> <<"C","R","M">>],
       [key |-> <<"c","m","e","a","n">>, value |-> <<"C","M","E","A","N">>],
       [key |-> <<"r","i","s","e">>,     value |-> <<"R","I","S">>],
       [key |-> <<"f","a","l","l">>,     value |-> <<"F","A","L","L">>],
       [key |-> <<"l","o","w">>,         value |-> <<"L","O","W">>],
       [key |-> <<"h","i","g","h">>,     value |-> <<"H","I","G","H">>] >>

OsciDicValues == {OsciDic[i].value : i \in 1..Len(OsciDic)}

\* dic[key]
OsciDicGet(key) ==
    OsciDic[CHOOSE i \in 1..Len(OsciDic) : OsciDic[i].key = key].value

FREQ == <<"F","R","E","Q">>

\* The local name aux before anything is assigned to it.
Unbound == <<"<unbound>">>

\* Faulty variant: the scan keeps the first match.
RECURSIVE OsciDicScanFirst(_, _, _)
OsciDicScanFirst(low, aux, i) ==
    IF i > Len(OsciDic) THEN aux
    ELSE OsciDicScanFirst(low,
                          IF Contains(OsciDic[i].key, low) /\ aux = Unbound
                          THEN OsciDic[i].value ELSE aux,
                          i + 1)

\* for key, value in dic.items(): if key in mtype.lower(): aux = value
RECURSIVE OsciDicScan(_, _, _)
OsciDicScan(low, aux, i) ==
    IF i > Len(OsciDic) THEN aux
    ELSE OsciDicScan(low,
                     IF Contains(OsciDic[i].key, low)
                     THEN OsciDic[i].value ELSE aux,
                     i + 1)

\* Faulty variant: a string with 'c' is scanned against the table like any other.
RecognizeTypeNoBranch(mtype) ==
    LET low == Lower(mtype)
        aux == OsciDicScan(low, Unbound, 1)
    IN  IF aux = Unbound
        THEN [outcome |-> "UnboundLocalError", aux |-> Unbound]
        ELSE IF aux \notin OsciDicValues
        THEN [outcome |-> "ok", aux |-> FREQ]
        ELSE [outcome |-> "ok", aux |-> aux]

\* "the algorithm to recognize measurement's type": the token aux, or the
\* exception raised by reading aux when no key has assigned it.
RecognizeType(mtype) ==
    LET low == Lower(mtype) IN
    IF Contains(<<"c">>, low)
    THEN IF Contains(<<"r","m","s">>, low)
         THEN [outcome |-> "ok", aux |-> OsciDicGet(<<"c","r","m","s">>)]
         ELSE [outcome |-> "ok", aux |-> OsciDicGet(<<"c","m","e","a","n">>)]
    ELSE LET aux == OsciDicScan(low, Unbound, 1) IN
         IF aux = Unbound
         THEN [outcome |-> "UnboundLocalError", aux |-> Unbound]
         ELSE IF aux \notin OsciDicValues
         THEN [outcome |-> "ok", aux |-> FREQ]
         ELSE [outcome |-> "ok", aux |-> aux]

(* ----------------------- Osci.get_config_measure ---------------------- *)

\* The state of an Osci call in progress: the cache, the oscilloscope, the
\* writes and the queries that went through, the transport operation that
\* raised (if any), and how the call ended.
StartMeasureRun(cfg, dev) ==
    [cfg |-> cfg, dev |-> dev, cmds |-> <<>>, queries |-> <<>>,
     failed |-> <<>>, outcome |-> "ok", at |-> "", channel |-> 0,
     aux |-> Unbound]

\* self.osci.write(cmd): the oscilloscope stores the value, unless this is the
\* fail-th transport operation of the call, which raises.
OsciWrite(r, cmd, fail) ==
    IF Len(r.cmds) + Len(r.queries) + 1 = fail
    THEN [r EXCEPT !.failed = <<cmd>>, !.outcome = "TransportError"]
    ELSE [r EXCEPT !.cmds = Append(@, cmd), !.dev[cmd.field] = CmdValue(cmd)]

\* self.osci.query(q)
OsciQuery(r, q, fail) ==
    IF Len(r.cmds) + Len(r.queries) + 1 = fail
    THEN [r EXCEPT !.failed = <<[query |-> q]>>, !.outcome = "TransportError"]
    ELSE [r EXCEPT !.queries = Append(@, q)]

\* configuration = {'Source': find_1st_number(query('MEASU:IMM:SOU?')),
\*                  'Type': query('MEASU:IMM:TYP?')}; on return the caller
\* assigns it to self.config_measure.
get_config_measure(r, fail) ==
    LET r1 == OsciQuery(r, "MEASU:IMM:SOU?", fail)
        r2 == IF r1.outcome = "ok"
              THEN OsciQuery(r1, "MEASU:IMM:TYP?", fail) ELSE r1
    IN  IF r2.outcome = "ok"
        THEN [r2 EXCEPT !.cfg = [Source |-> find_1st_number(r2.dev.Source),
                                 Type   |-> r2.dev.Type]]
        ELSE r2

(* ----------------------- Osci.re_config_measure ----------------------- *)

\* if channel not in [1,2]: channel = 1
MeasureChannel(channel) == IF channel \notin {1, 2} THEN 1 ELSE channel

\* if self.config_measure['Source'] != channel: write('MEASU:IMM:SOU CH..')
StepSource(r, fail) ==
    IF r.outcome # "ok" THEN r
    ELSE IF r.cfg.Source # r.channel
    THEN OsciWrite(r, NumCmd("Source", 0, r.channel), fail)
    ELSE r

\* if self.config_measure['Type'] != aux: write('MEASU:IMM:TYP ..')
StepType(r, fail) ==
    IF r.outcome # "ok" THEN r
    ELSE IF r.cfg.Type # r.aux
    THEN OsciWrite(r, TokCmd("Type", 0, r.aux), fail)
    ELSE r

re_config_measure(r, mtype, channel, fail) ==
    LET t  == RecognizeType(mtype)
        r1 == [r EXCEPT !.channel = MeasureChannel(channel),
                        !.aux = t.aux, !.outcome = t.outcome,
                        !.at = IF t.outcome = "ok" THEN "" ELSE "aux"]
        r2 == StepSource(r1, fail)
        r3 == StepType(r2, fail)
    IN  IF r3.outcome = "ok" THEN get_config_measure(r3, fail) ELSE r3

(* ---------------------------- Osci.measure ---------------------------- *)

\* Faulty variant: the value is queried before the measurement is configured.
measure_QueryFirst(r, mtype, channel, fail) ==
    LET r1 == OsciQuery(r, "MEASU:IMM:VAL?", fail)
        r2 == IF r1.outcome = "ok"
              THEN re_config_measure(r1, mtype, channel, fail) ELSE r1
    IN  IF r2.outcome = "ok" THEN OsciQuery(r2, "MEASU:IMM:UNI?", fail) ELSE r2

\* self.re_config_measure(mtype, channel); query('MEASU:IMM:VAL?');
\* query('MEASU:IMM:UNI?')
measure(r, mtype, channel, fail) ==
    LET r1 == re_config_measure(r, mtype, channel, fail)
        r2 == IF r1.outcome = "ok"
              THEN OsciQuery(r1, "MEASU:IMM:VAL?", fail) ELSE r1
    IN  IF r2.outcome = "ok" THEN OsciQuery(r2, "MEASU:IMM:UNI?", fail) ELSE r2

(* ------------------------------ fwp_save ------------------------------ *)

\* Paths are POSIX paths, made of letters, digits, '/', '.' and a separator.

Digits == <<"0","1","2","3","4","5","6","7","8","9">>

IsDigit(c) == \E k \in 1..Len(Digits) : Digits[k] = c

DigitValue(c) == (CHOOSE k \in 1..Len(Digits) : Digits[k] = c) - 1

\* str(n), n >= 0
RECURSIVE Str(_)
Str(n) ==
    IF n < Len(Digits) THEN <<Digits[n + 1]>>
    ELSE Str(n \div Len(Digits)) \o <<Digits[(n % Len(Digits)) + 1]>>

\* int(s) raises ValueError unless s spells a number
IsInt(s) == s # <<>> /\ \A k \in 1..Len(s) : IsDigit(s[k])

\* int(s)
RECURSIVE ParseInt(_)
ParseInt(s) ==
    IF s = <<>> THEN 0
    ELSE Len(Digits) * ParseInt(SubSeq(s, 1, Len(s) - 1)) + DigitValue(s[Len(s)])

\* s.rfind(c) + 1
LastIndex(c, s) ==
    LET I == {k \in 1..Len(s) : s[k] = c} IN IF I = {} THEN 0 ELSE Max(I)

\* s.find(c) + 1
FirstIndex(c, s) ==
    LET I == {k \in 1..Len(s) : s[k] = c}
    IN  IF I = {} THEN 0 ELSE CHOOSE k \in I : \A j \in I : k <= j

\* s.split(c), c one character
RECURSIVE Split(_, _)
Split(s, c) ==
    LET k == FirstIndex(c, s) IN
    IF k = 0 THEN <<s>>
    ELSE <<SubSeq(s, 1, k - 1)>> \o Split(SubSeq(s, k + 1, Len(s)), c)

\* s.rstrip('/')
RECURSIVE RStripSlash(_)
RStripSlash(s) ==
    IF s # <<>> /\ s[Len(s)] = "/" THEN RStripSlash(SubSeq(s, 1, Len(s) - 1))
    ELSE s

\* os.path.splitext(p): <<root, ext>>; the extension starts at the last dot of
\* the last component, unless only dots precede it there.
splitext(p) ==
    LET sepIndex == LastIndex("/", p)
        dotIndex == LastIndex(".", p)
    IN  IF /\ dotIndex > sepIndex
           /\ \E k \in (sepIndex + 1)..(dotIndex - 1) : p[k] # "."
        THEN <<SubSeq(p, 1, dotIndex - 1), SubSeq(p, dotIndex, Len(p))>>
        ELSE <<p, <<>>>>

\* os.path.split(p)[0]
dirname(p) ==
    LET head == SubSeq(p, 1, LastIndex("/", p))
    IN  IF head # <<>> /\ \E k \in 1..Len(head) : head[k] # "/"
        THEN RStripSlash(head) ELSE head

\* os.path.join(a, b)
join(a, b) ==
    IF b # <<>> /\ b[1] = "/" THEN b
    ELSE IF a = <<>> \/ a[Len(a)] = "/" THEN a \o b
    ELSE a \o <<"/">> \o b

\* The call of a function of fwp_save in progress.  files: the paths that
\* exist; isdir: the directory of the path given exists; arg, sep: the path
\* and the separator given; name, base, extension, i: the function's locals
\* (name is new_name's `name` and free_file's `free_file`); pc: where it is.
NoSave ==
    [op |-> "none", files |-> {}, isdir |-> TRUE, arg |-> <<>>, sep |-> "_",
     name |-> <<>>, base |-> <<>>, extension |-> <<>>, i |-> 0, pc |-> "done"]

\* new_name: base, extension = os.path.splitext(name); i = 2
new_name_entry(s) ==
    [s EXCEPT !.base = splitext(s.arg)[1], !.extension = splitext(s.arg)[2],
              !.name = s.arg, !.i = 2, !.pc = "while"]

\* Faulty variant: the number in the name is one ahead.
new_name_body_Skips(s) ==
    [s EXCEPT !.name = s.base \o <<s.sep>> \o Str(s.i + 1) \o s.extension,
              !.i = s.i + 1]

\* new_name, body of the loop: name = base + newseparator + str(i) + extension
\* and i += 1
new_name_body(s) ==
    [s EXCEPT !.name = s.base \o <<s.sep>> \o Str(s.i) \o s.extension,
              !.i = s.i + 1]

\* free_file: base and extension of my_file; free_file = my_file
free_file_entry(s) ==
    [s EXCEPT !.base = dirname(s.arg), !.extension = splitext(s.arg)[2],
              !.name = s.arg]

\* free_file, body of the loop, as a function of the path tried: the root is
\* split at the separator, the last piece is the number, the first piece is
\* what the new number is appended to.
free_file_next(free_file, my_file, base, extension, sepformat) ==
    LET pieces == Split(splitext(free_file)[1], sepformat)
        number == pieces[Len(pieces)]
        first  == pieces[1]
        named  == IF IsInt(number)
                  THEN first \o <<sepformat>> \o Str(ParseInt(number) + 1)
                  ELSE splitext(my_file)[1] \o <<sepformat>> \o Str(2)
    IN  join(base, named \o extension)

free_file_body(s) ==
    [s EXCEPT !.name = free_file_next(s.name, s.arg, s.base, s.extension, s.sep)]

(* ------------------------------- state -------------------------------- *)

VARIABLES
    nchannels,          \* Gen.nchannels
    gen,                \* the generator behind Gen.gen: channel -> what it holds
    config_output,      \* Gen.config_output, int keys
    config_output_str,  \* Gen.config_output, str keys
    osci,               \* the oscilloscope behind Osci.osci: immediate measurement
    config_measure,     \* Osci.config_measure
    call,               \* the last call made: arguments, commands, how it ended
    ncalls,             \* calls made so far
    save,               \* the call of a function of fwp_save: files, locals
    running             \* re_config_output calls running at once: caller -> locals

vars == <<nchannels, gen, config_output, config_output_str, osci,
          config_measure, call, ncalls, save, running>>

(* ------------------------------ inputs -------------------------------- *)

Waveforms ==
    { NoneStr,
      <<"s","i","n">>,
      <<"s","q","u">>,
      <<"P","u","l","s","e">>,
      <<"t","r","i">>,
      <<"z","z","z">>,
      <<"S","Q">> }

Opt(S) == {None} \cup {<<v>> : v \in S}

\* The arguments tried with Gen.re_config_output.
GenArgs ==
    [channel    : 1..(MaxChannels + 1),
     waveform   : Waveforms,
     frequency  : Opt({100000, 200000}),
     amplitude  : Opt({200}),
     offset     : Opt({50}),
     phase      : Opt({100}),
     duty_cycle : Opt({5000, 7500}),
     symmetry   : Opt({2000})]

\* The arguments of a call that gives none: channel=1, waveform='sin',
\* frequency=1e3, amplitude=1, offset=0, phase=0, duty_cycle=50, symmetry=50.
DefaultArgs ==
    [channel |-> 1, waveform |-> <<"s","i","n">>, frequency |-> <<100000>>,
     amplitude |-> <<100>>, offset |-> <<0>>, phase |-> <<0>>,
     duty_cycle |-> <<5000>>, symmetry |-> <<5000>>]

\* The keyword arguments tried with Gen.output.
OutputArgs ==
    [channel    : 1..(MaxChannels + 1),
     waveform   : {NoneStr, <<"s","q","u">>, <<"t","r","i">>, <<"z","z","z">>},
     frequency  : Opt({200000}),
     amplitude  : Opt({200}),
     offset     : Opt({50}),
     phase      : Opt({100}),
     duty_cycle : Opt({7526}),
     symmetry   : Opt({2000})]

\* The arguments tried with Gen calls made one after the other.
SeqArgs ==
    [channel    : 1..(MaxChannels + 1),
     waveform   : {NoneStr, <<"s","q","u">>},
     frequency  : {None},
     amplitude  : {None},
     offset     : {None},
     phase      : {None},
     duty_cycle : Opt({7526}),
     symmetry   : {None}]

\* The callers that run Gen.re_config_output at once on one instance.
Callers == {1, 2}

\* The frequencies they ask for; the first is the one cached at connection.
RaceFrequencies == {100000, 200000, 300000}

\* No call is running.
NoRunning == [t \in {} |-> 0]

NoArgs ==
    [channel |-> 0, waveform |-> NoneStr, frequency |-> None,
     amplitude |-> None, offset |-> None, phase |-> None,
     duty_cycle |-> None, symmetry |-> None]

NoCall ==
    [op |-> "none", args |-> NoArgs, status |-> FALSE, mtype |-> NoneStr,
     pre |-> EmptyDict, cmds |-> <<>>, failed |-> <<>>, outcome |-> "ok",
     at |-> "", channel |-> 0, waveform |-> NoneStr, queries |-> <<>>,
     aux |-> Unbound, before |-> "none"]

\* What the strings given as waveform or measurement type are made of: the
\* keys of both tables, and pieces that hold no key.
Pieces ==
    {GenDic[i].key : i \in 1..Len(GenDic)}
    \cup {OsciDic[i].key : i \in 1..Len(OsciDic)}
    \cup { <<>>, <<"x">>, <<"C">>, <<"M","a","x">>, <<"S","Q","U">> }

\* The tokens the two tables map to, given back as keywords.
Tokens == GenDicValues \cup OsciDicValues

RECURSIVE WordsOf(_)
WordsOf(k) ==
    IF k = 0 THEN { <<>> }
    ELSE {p \o w : p \in Pieces, w \in WordsOf(k - 1)}

\* The strings tried as waveform and as measurement type.
Words == WordsOf(MaxPieces) \cup Tokens

\* The paths tried with new_name and free_file.
SaveNames ==
    { <<"/","d","/","a",".","t","x","t">>,
      <<"/","d","/","a">>,
      <<"/","m","_","d","/","a",".","t","x","t">>,
      <<"/","d","/","a","_","b",".","t","x","t">>,
      <<"/","d","/","a","_","1",".","t","x","t">>,
      <<"/","d","/",".","r","c">>,
      <<"/","d",".","x","/","a","-","b">> }

\* newseparator of new_name; the text between the fields of free_file's
\* newformat
Separators == {"_", "-"}

\* base + newseparator + str(j) + extension for a name
NumberedName(name, sep, j) ==
    splitext(name)[1] \o <<sep>> \o Str(j) \o splitext(name)[2]

\* The first k paths free_file tries for my_file while each of them exists.
RECURSIVE Tried(_, _, _, _)
Tried(free_file, my_file, sep, k) ==
    IF k = 0 THEN {}
    ELSE {free_file}
         \cup Tried(free_file_next(free_file, my_file, dirname(my_file),
                                   splitext(my_file)[2], sep),
                    my_file, sep, k - 1)

(* ------------------------------- Gen ---------------------------------- *)

\* Gen.__init__: the cache is what get_config_output returns.  All channels of
\* the generator start with the same shape.
InitGen(shapes) ==
    /\ nchannels \in 1..MaxChannels
    /\ \E w \in shapes : gen = [channel \in 1..nchannels |-> DevChannel(w, 0)]
    /\ \E dcyc_ok \in BOOLEAN, symm_ok \in BOOLEAN :
          LET c == get_config_output(gen, nchannels, dcyc_ok, symm_ok)
          IN  /\ config_output = c.chan
              /\ config_output_str = c.str

\* Gen.__init__ on a generator whose outputs may be on (all of them, or none).
InitGenOn(shapes, stats) ==
    /\ nchannels \in 1..MaxChannels
    /\ \E w \in shapes, st \in stats :
          gen = [channel \in 1..nchannels |-> DevChannel(w, st)]
    /\ \E dcyc_ok \in BOOLEAN, symm_ok \in BOOLEAN :
          LET c == get_config_output(gen, nchannels, dcyc_ok, symm_ok)
          IN  /\ config_output = c.chan
              /\ config_output_str = c.str

\* The effect of a finished Gen call r on the state.  repeat: the call repeats
\* the previous one.
GenDone(op, a, status, r, repeat) ==
    /\ config_output' = r.cfg
    /\ gen' = DevApplyAll(gen, r.cmds)
    /\ call' = [op |-> op, args |-> a, status |-> status, mtype |-> NoneStr,
                pre |-> config_output, cmds |-> r.cmds, failed |-> r.failed,
                outcome |-> r.outcome, at |-> r.at, channel |-> r.channel,
                waveform |-> r.waveform, queries |-> <<>>, aux |-> Unbound,
                before |-> IF repeat THEN call.outcome ELSE "none"]
    /\ ncalls' = ncalls + 1
    /\ UNCHANGED <<nchannels, config_output_str, osci, config_measure, save,
                   running>>

CallReConfigOutput(a, fail, repeat) ==
    GenDone("re_config_output", a, FALSE,
            re_config_output(StartRun(config_output), nchannels, a, fail),
            repeat)

CallOutput(a, status, fail, repeat) ==
    GenDone("output", a, status,
            output(StartRun(config_output), nchannels, status, a, fail),
            repeat)

\* gen.re_config_output(channel, waveform, ..., symmetry)
GenReConfigOutput ==
    /\ ncalls = 0
    /\ \E a \in GenArgs \cup {DefaultArgs}, fail \in 0..MaxFail :
          CallReConfigOutput(a, fail, FALSE)

\* The caller makes the re_config_output call that just returned once more,
\* with the same arguments.
GenReConfigOutputAgain ==
    /\ ncalls > 0
    /\ ncalls < MaxCalls
    /\ call.op = "re_config_output"
    /\ call.outcome = "ok"
    /\ \E fail \in 0..MaxFail : CallReConfigOutput(call.args, fail, TRUE)

\* gen.output(status, channel, **output_config)
GenOutput ==
    /\ ncalls = 0
    /\ \E a \in OutputArgs, status \in BOOLEAN, fail \in 0..MaxFail :
          CallOutput(a, status, fail, FALSE)

\* The caller makes the output call that just returned once more, with the
\* same arguments.
GenOutputAgain ==
    /\ ncalls > 0
    /\ ncalls < MaxCalls
    /\ call.op = "output"
    /\ call.outcome = "ok"
    /\ \E fail \in 0..MaxFail : CallOutput(call.args, call.status, fail, TRUE)

\* gen.output(...), one of several calls in a row
SeqOutput ==
    /\ ncalls < MaxSeq
    /\ \E a \in SeqArgs, status \in BOOLEAN, fail \in 0..MaxFail :
          CallOutput(a, status, fail, FALSE)

\* gen.re_config_output(...), one of several calls in a row
SeqReConfigOutput ==
    /\ ncalls < MaxSeq
    /\ \E a \in SeqArgs, fail \in 0..MaxFail : CallReConfigOutput(a, fail, FALSE)

\* gen.re_config_output(waveform=w) on channel 1
GenReConfigWord ==
    /\ ncalls = 0
    /\ \E w \in Words, fail \in 0..1 :
          CallReConfigOutput([NoArgs EXCEPT !.channel = 1, !.waveform = w],
                             fail, FALSE)

(* ------------------------------- Osci --------------------------------- *)

\* The measurement types tried with Osci.re_config_measure.
MTypes ==
    { <<"M","i","n">>,
      <<"f","r","e","q">>,
      <<"r","m","s">>,
      <<"c","r","m","s">>,
      <<"m","e","a","n">>,
      <<"z","z","z">>,
      <<"m","i","n","m","a","x">> }

OsciTypes == {FREQ, <<"M","I","N","I">>, <<"C","R","M">>}

\* Osci.__init__: the cache is what get_config_measure returns.
InitOsci(types) ==
    /\ osci \in [Source : {1, 2}, Type : types]
    /\ config_measure =
          get_config_measure(StartMeasureRun(EmptyDict, osci), 0).cfg

\* The effect of a finished Osci call r on the state.
OsciDone(op, mtype, channel, r, repeat) ==
    /\ config_measure' = r.cfg
    /\ osci' = r.dev
    /\ call' = [op |-> op, args |-> [NoArgs EXCEPT !.channel = channel],
                status |-> FALSE, mtype |-> mtype,
                pre |-> config_measure, cmds |-> r.cmds, failed |-> r.failed,
                outcome |-> r.outcome, at |-> r.at, channel |-> r.channel,
                waveform |-> NoneStr, queries |-> r.queries, aux |-> r.aux,
                before |-> IF repeat THEN call.outcome ELSE "none"]
    /\ ncalls' = ncalls + 1
    /\ UNCHANGED <<nchannels, gen, config_output, config_output_str, save,
                   running>>

CallReConfigMeasure(mtype, channel, fail, repeat) ==
    OsciDone("re_config_measure", mtype, channel,
             re_config_measure(StartMeasureRun(config_measure, osci),
                               mtype, channel, fail),
             repeat)

\* osci.re_config_measure(mtype, channel)
OsciReConfigMeasure ==
    /\ ncalls = 0
    /\ \E mtype \in MTypes, channel \in 0..3, fail \in 0..(MaxFail + 2) :
          CallReConfigMeasure(mtype, channel, fail, FALSE)

\* The caller makes the re_config_measure call that just returned once more,
\* with the same arguments.
OsciReConfigMeasureAgain ==
    /\ ncalls > 0
    /\ ncalls < MaxCalls
    /\ call.op = "re_config_measure"
    /\ call.outcome = "ok"
    /\ \E fail \in 0..(MaxFail + 2) :
          CallReConfigMeasure(call.mtype, call.args.channel, fail, TRUE)

\* osci.re_config_measure(w, 1)
OsciReConfigWord ==
    /\ ncalls = 0
    /\ \E w \in Words, fail \in 0..1 : CallReConfigMeasure(w, 1, fail, FALSE)

CallMeasure(mtype, channel, fail) ==
    OsciDone("measure", mtype, channel,
             measure(StartMeasureRun(config_measure, osci), mtype, channel, fail),
             FALSE)

\* osci.measure(mtype, channel), the first call or one after a call that
\* returned
OsciMeasure ==
    /\ ncalls < MaxCalls
    /\ call.outcome = "ok"
    /\ \E mtype \in MTypes, channel \in 0..3, fail \in 0..(MaxFail + 4) :
          CallMeasure(mtype, channel, fail)

(* ------------------- Gen.re_config_output, interleaved ---------------- *)

\* Each caller runs the frequency block of re_config_output on channel 1, one
\* step at a time: the comparison with the cache, the write, the assignment
\* to the cache.  Nothing in the method keeps the callers apart.
InitRunning ==
    running \in [Callers -> [pc : {"compare"}, frequency : RaceFrequencies,
                             wrote : {FALSE}]]

RaceStep(t, pc, wrote) ==
    /\ running' = [running EXCEPT ![t].pc = pc, ![t].wrote = wrote]
    /\ UNCHANGED <<nchannels, config_output_str, osci, config_measure, call,
                   ncalls, save>>

\* Faulty variant: a caller waits while another one is inside the block.
RaceCompareLocked(t) ==
    /\ running[t].pc = "compare"
    /\ \A u \in Callers \ {t} : running[u].pc \notin {"write", "cache"}
    /\ RaceStep(t, IF config_output[1]["Frequency"] # running[t].frequency
                   THEN "write" ELSE "done", FALSE)
    /\ UNCHANGED <<gen, config_output>>

\* if self.config_output[channel]['Frequency'] != frequency:
RaceCompare(t) ==
    /\ running[t].pc = "compare"
    /\ RaceStep(t, IF config_output[1]["Frequency"] # running[t].frequency
                   THEN "write" ELSE "done", FALSE)
    /\ UNCHANGED <<gen, config_output>>

\* self.gen.write('SOUR{}:FREQ {}'.format(channel, frequency))
RaceWrite(t) ==
    /\ running[t].pc = "write"
    /\ gen' = DevApply(gen, NumCmd("Frequency", 1, running[t].frequency))
    /\ RaceStep(t, "cache", TRUE)
    /\ UNCHANGED config_output

\* self.config_output[channel]['Frequency'] = frequency
RaceCache(t) ==
    /\ running[t].pc = "cache"
    /\ config_output' =
          [config_output EXCEPT ![1]["Frequency"] = running[t].frequency]
    /\ RaceStep(t, "done", TRUE)
    /\ UNCHANGED gen

GenRaceCompare == \E t \in Callers : RaceCompare(t)

GenRaceWrite == \E t \in Callers : RaceWrite(t)

GenRaceCache == \E t \in Callers : RaceCache(t)

(* ----------------------------- fwp_save ------------------------------- *)

\* A call of new_name(name, newseparator) is entered; some of the paths it may
\* try exist.
InitNewName ==
    \E name \in SaveNames, sep \in Separators :
       \E files \in SUBSET ({name} \cup {NumberedName(name, sep, j) :
                                            j \in 2..MaxFiles}) :
          save = [NoSave EXCEPT !.op = "new_name", !.arg = name, !.sep = sep,
                                !.files = files, !.pc = "entry"]

\* A call of free_file(my_file, newformat) is entered; the directory of
\* my_file exists or not, and some of the paths it may try are files.
InitFreeFile ==
    \E my_file \in SaveNames, sep \in Separators, isdir \in BOOLEAN :
       \E files \in SUBSET Tried(my_file, my_file, sep, MaxFiles) :
          /\ ~isdir => files = {}
          /\ save = [NoSave EXCEPT !.op = "free_file", !.arg = my_file,
                                   !.sep = sep, !.isdir = isdir,
                                   !.files = files, !.pc = "entry"]

SaveStep(s) ==
    /\ save' = s
    /\ UNCHANGED <<nchannels, gen, config_output, config_output_str, osci,
                   config_measure, call, ncalls, running>>

NewNameEntry ==
    /\ save.op = "new_name" /\ save.pc = "entry"
    /\ SaveStep(new_name_entry(save))

\* while os.path.exists(name): ...
NewNameLoop ==
    /\ save.op = "new_name" /\ save.pc = "while"
    /\ save.name \in save.files
    /\ save.i <= MaxFiles + 1
    /\ SaveStep(new_name_body(save))

\* return name
NewNameReturn ==
    /\ save.op = "new_name" /\ save.pc = "while"
    /\ save.name \notin save.files
    /\ SaveStep([save EXCEPT !.pc = "done"])

\* if not os.path.isdir(base): os.makedirs(base); free_file = my_file
FreeFileMakeDirs ==
    /\ save.op = "free_file" /\ save.pc = "entry"
    /\ ~save.isdir
    /\ SaveStep([free_file_entry(save) EXCEPT !.isdir = TRUE, !.pc = "done"])

\* else: sepformat = ...; free_file = my_file
FreeFileEntry ==
    /\ save.op = "free_file" /\ save.pc = "entry"
    /\ save.isdir
    /\ SaveStep([free_file_entry(save) EXCEPT !.pc = "while"])

\* while os.path.isfile(free_file): ...
FreeFileLoop ==
    /\ save.op = "free_file" /\ save.pc = "while"
    /\ save.name \in save.files
    /\ SaveStep(free_file_body(save))

\* return free_file
FreeFileReturn ==
    /\ save.op = "free_file" /\ save.pc = "while"
    /\ save.name \notin save.files
    /\ SaveStep([save EXCEPT !.pc = "done"])

(* --------------------------- specifications --------------------------- *)

\* A generator on any of the start states, an oscilloscope on one.
Init ==
    /\ InitGen(DevShapes)
    /\ InitOsci({FREQ})
    /\ osci.Source = 1
    /\ call = NoCall
    /\ ncalls = 0
    /\ save = NoSave
    /\ running = NoRunning

\* Gen.re_config_output called directly
Next == GenReConfigOutput \/ GenReConfigOutputAgain

Spec == Init /\ [][Next]_vars

\* Gen.output
NextOutput == GenOutput \/ GenOutputAgain

SpecOutput == Init /\ [][NextOutput]_vars

\* Gen.re_config_output called directly or by Gen.output
NextGen == Next \/ NextOutput

SpecGen == Init /\ [][NextGen]_vars

\* An oscilloscope on any of the start states, a generator on one.
InitMeasure ==
    /\ InitGen({SIN})
    /\ nchannels = 1
    /\ config_output_str = EmptyDict
    /\ InitOsci(OsciTypes)
    /\ call = NoCall
    /\ ncalls = 0
    /\ save = NoSave
    /\ running = NoRunning

\* Osci.re_config_measure
NextMeasure == OsciReConfigMeasure \/ OsciReConfigMeasureAgain

SpecMeasure == InitMeasure /\ [][NextMeasure]_vars

\* A one-channel generator holding PULS and an oscilloscope measuring FREQ.
InitWords ==
    /\ InitGen({PULS})
    /\ nchannels = 1
    /\ InitOsci({FREQ})
    /\ osci.Source = 1
    /\ call = NoCall
    /\ ncalls = 0
    /\ save = NoSave
    /\ running = NoRunning

\* The two recognition algorithms, each inside the method that holds it
NextWords == GenReConfigWord \/ OsciReConfigWord

SpecWords == InitWords /\ [][NextWords]_vars

\* A generator with its outputs on, an oscilloscope on one start state.
InitSeq ==
    /\ InitGenOn({SIN, PULS}, {1})
    /\ InitOsci({FREQ})
    /\ osci.Source = 1
    /\ call = NoCall
    /\ ncalls = 0
    /\ save = NoSave
    /\ running = NoRunning

\* Gen.output and Gen.re_config_output in any order on one instance
NextSeq == SeqOutput \/ SeqReConfigOutput

SpecSeq == InitSeq /\ [][NextSeq]_vars

\* One call of new_name or of free_file, run to its end.
InitSave ==
    /\ InitGen({SIN})
    /\ nchannels = 1
    /\ config_output_str = EmptyDict
    /\ InitOsci({FREQ})
    /\ osci.Source = 1
    /\ call = NoCall
    /\ ncalls = 0
    /\ running = NoRunning
    /\ (InitNewName \/ InitFreeFile)

NextNewName == NewNameEntry \/ NewNameLoop \/ NewNameReturn

NextFreeFile ==
    FreeFileMakeDirs \/ FreeFileEntry \/ FreeFileLoop \/ FreeFileReturn

NextSave == NextNewName \/ NextFreeFile

\* A call of new_name runs on until it returns.
SpecSave == InitSave /\ [][NextSave]_vars /\ WF_vars(NextNewName)

\* Osci.measure
NextTake == OsciMeasure

SpecTake == InitMeasure /\ [][NextTake]_vars

\* Two re_config_output calls on channel 1 of one generator, interleaved
InitRace ==
    /\ InitGen(DevShapes)
    /\ InitOsci({FREQ})
    /\ osci.Source = 1
    /\ call = NoCall
    /\ ncalls = 0
    /\ save = NoSave
    /\ InitRunning

NextRace == GenRaceCompare \/ GenRaceWrite \/ GenRaceCache

SpecRace == InitRace /\ [][NextRace]_vars

(* ------------------------- reading a Gen call ------------------------- *)

IsReConfig == call.op = "re_config_output"

IsOutput == call.op = "output"

\* A dict entry, or None for a key the dict does not have.
CacheGet(d, k) == IF k \in DOMAIN d THEN <<d[k]>> ELSE None

\* The channel's cache entry when the call was entered, and now.
PreCache == call.pre[call.channel]

PostCache == config_output[call.channel]

\* The value the call asks for in a field: None when the argument is None.
Requested(field) ==
    CASE field = "Waveform"   -> IF call.args.waveform = NoneStr THEN None
                                 ELSE <<call.waveform>>
      [] field = "Frequency"  -> call.args.frequency
      [] field = "Amplitude"  -> call.args.amplitude
      [] field = "Offset"     -> call.args.offset
      [] field = "Phase"      -> call.args.phase
      [] field = "Duty Cycle" -> call.args.duty_cycle
      [] field = "Symmetry"   -> call.args.symmetry

FieldSet == {Fields[i] : i \in 1..Len(Fields)}

FieldIndex(field) == CHOOSE i \in 1..Len(Fields) : Fields[i] = field

\* The fields whose requested value is not None and differs from the cache
\* at entry (a key the cache does not have differs from every value).
DifferingFields ==
    {f \in FieldSet : Requested(f) # None /\ Requested(f) # CacheGet(PreCache, f)}

WrittenFields == {call.cmds[i].field : i \in 1..Len(call.cmds)}

NoTransportFailure == call.outcome # "TransportError"

\* C1: a re_config_output call that returns normally emits as many write
\* commands as there are fields whose requested value differs from the cache,
\* one per such field, and none for a field whose requested value equals it.
C1_Minimality ==
    (IsReConfig /\ call.outcome = "ok") =>
        /\ Len(call.cmds) = Cardinality(DifferingFields)
        /\ WrittenFields = DifferingFields
        /\ \A i, j \in 1..Len(call.cmds) :
              i # j => call.cmds[i].field # call.cmds[j].field
        /\ \A i \in 1..Len(call.cmds) : call.cmds[i].ch = call.channel

\* A normal call with three writes and a requested frequency equal to the cache.
C1_Witness ==
    /\ IsReConfig /\ call.outcome = "ok"
    /\ Len(call.cmds) = 3
    /\ call.args.frequency # None
    /\ "Frequency" \notin WrittenFields

\* C2: when a re_config_output call returned normally, the same call made
\* again emits no write command and leaves config_output as it was.
C2_Idempotence ==
    (IsReConfig /\ call.before = "ok") =>
        /\ call.cmds = <<>>
        /\ call.failed = <<>>
        /\ call.outcome = "ok"
        /\ config_output = call.pre

\* The repeated call asks for a waveform, a frequency and a duty cycle that the
\* first call had to write.
C2_Witness ==
    /\ IsReConfig /\ call.before = "ok"
    /\ call.args.waveform = <<"s","q","u">>
    /\ call.args.frequency = <<200000>>
    /\ call.args.duty_cycle = <<7500>>
    /\ gen[call.channel]["Duty Cycle"] = 7500
    /\ gen[call.channel]["Frequency"] = 200000

SquDuty75 ==
    [channel |-> 1, waveform |-> <<"s","q","u">>, frequency |-> None,
     amplitude |-> None, offset |-> None, phase |-> None,
     duty_cycle |-> <<7500>>, symmetry |-> None]

\* C3: with Waveform SIN cached for channel 1,
\* re_config_output(channel=1, waveform='squ', duty_cycle=75) emits exactly the
\* waveform write (PULS) and then the duty cycle write (75), and ends with
\* Waveform PULS and Duty Cycle 75 cached and every other entry unchanged,
\* also when the cache has no Duty Cycle entry.
C3_EndToEnd ==
    (/\ IsReConfig
     /\ call.args = SquDuty75
     /\ call.pre[1]["Waveform"] = SIN
     /\ NoTransportFailure) =>
        /\ call.outcome = "ok"
        /\ Len(call.cmds) = 2
        /\ call.cmds[1] = TokCmd("Waveform", 1, PULS)
        /\ call.cmds[2] = NumCmd("Duty Cycle", 1, 7500)
        /\ CacheGet(config_output[1], "Waveform") = <<PULS>>
        /\ CacheGet(config_output[1], "Duty Cycle") = <<7500>>
        /\ \A k \in DOMAIN call.pre[1] \ {"Waveform", "Duty Cycle"} :
              config_output[1][k] = call.pre[1][k]

ValueErrorAt(field) == call.outcome = "ValueError" /\ call.at = field

\* C4: a non-None duty_cycle with an effective waveform other than PULS makes
\* the call raise ValueError, with no duty cycle write and the cached Duty
\* Cycle unchanged; a non-None symmetry with an effective waveform other than
\* RAMP makes it raise ValueError, with no symmetry write and the cached
\* Symmetry unchanged.
C4_Gating ==
    (IsReConfig /\ NoTransportFailure) =>
        /\ (call.args.duty_cycle # None /\ call.waveform # PULS) =>
              /\ call.outcome = "ValueError"
              /\ "Duty Cycle" \notin WrittenFields
              /\ CacheGet(PostCache, "Duty Cycle") = CacheGet(PreCache, "Duty Cycle")
        /\ (call.args.symmetry # None /\ call.waveform # RAMP) =>
              /\ call.outcome = "ValueError"
              /\ "Symmetry" \notin WrittenFields
              /\ CacheGet(PostCache, "Symmetry") = CacheGet(PreCache, "Symmetry")

\* C5: duty cycle and symmetry are validated against the waveform as this
\* call's waveform block left it.  ValueError is raised for a duty cycle
\* exactly when that waveform is not PULS, for a symmetry only when it is not
\* RAMP; with SIN cached, waveform 'pulse' with a duty cycle is not rejected
\* for the duty cycle and the waveform write precedes the duty cycle write;
\* with PULS cached, waveform 'sin' with a duty cycle raises ValueError.
C5_GoverningFieldFirst ==
    (IsReConfig /\ NoTransportFailure) =>
        /\ ValueErrorAt("Duty Cycle") => PostCache["Waveform"] # PULS
        /\ ValueErrorAt("Symmetry") => PostCache["Waveform"] # RAMP
        /\ (call.args.duty_cycle # None /\ PostCache["Waveform"] # PULS)
              => ValueErrorAt("Duty Cycle")
        /\ (/\ PreCache["Waveform"] = SIN
            /\ call.args.waveform # NoneStr
            /\ Lower(call.args.waveform) = <<"p","u","l","s","e">>
            /\ call.args.duty_cycle # None) =>
              /\ ~ValueErrorAt("Duty Cycle")
              /\ call.cmds # <<>> /\ call.cmds[1].field = "Waveform"
              /\ \A j \in 1..Len(call.cmds) :
                    call.cmds[j].field = "Duty Cycle" => j > 1
        /\ (/\ PreCache["Waveform"] = PULS
            /\ call.args.waveform = <<"s","i","n">>
            /\ call.args.duty_cycle # None) => ValueErrorAt("Duty Cycle")

\* With SIN cached, waveform 'Pulse' and duty cycle 75: the waveform was
\* written, then the duty cycle.
C5_Witness ==
    /\ IsReConfig /\ call.outcome = "ok"
    /\ PreCache["Waveform"] = SIN
    /\ call.args.waveform = <<"P","u","l","s","e">>
    /\ call.args.duty_cycle = <<7500>>
    /\ call.cmds[1].field = "Waveform"
    /\ "Duty Cycle" \in WrittenFields

\* C6: when the transport write of a field raises, the call ends with that
\* exception; the fields written before it are cached with the requested
\* values; the failing field and every field after it in the order keep
\* their cache entries; no write is issued for a field after the failing one.
C6_PartialApplication ==
    (IsReConfig /\ call.failed # <<>>) =>
        LET bad == call.failed[1].field IN
        /\ call.outcome = "TransportError"
        /\ bad \in DifferingFields
        /\ \A f \in WrittenFields :
              /\ FieldIndex(f) < FieldIndex(bad)
              /\ CacheGet(PostCache, f) = Requested(f)
        /\ \A f \in FieldSet :
              FieldIndex(f) >= FieldIndex(bad) =>
                 /\ f \notin WrittenFields
                 /\ CacheGet(PostCache, f) = CacheGet(PreCache, f)
        /\ \A f \in DifferingFields :
              FieldIndex(f) < FieldIndex(bad) => f \in WrittenFields

\* The second of three differing fields fails: the waveform was written, the
\* frequency write raised, an amplitude was requested too.
C6_Witness ==
    /\ IsReConfig /\ call.outcome = "TransportError"
    /\ Len(call.cmds) = 1 /\ call.cmds[1].field = "Waveform"
    /\ call.failed[1].field = "Frequency"
    /\ call.args.amplitude # None

\* C8: Gen.output with a channel outside 1..nchannels acts on channel 1: every
\* command addresses channel 1, only config_output[1] changes, and the channel
\* value raises no error.
C8_OutputCoercion ==
    (IsOutput /\ call.args.channel \notin 1..nchannels) =>
        /\ \A i \in 1..Len(call.cmds) : call.cmds[i].ch = 1
        /\ \A i \in 1..Len(call.failed) : call.failed[i].ch = 1
        /\ \A d \in DOMAIN config_output : d # 1 => config_output[d] = call.pre[d]
        /\ ~(call.outcome = "KeyError" /\ call.at = "Status")

NoKey(s) ==
    /\ ~Contains(<<"c">>, Lower(s))
    /\ \A i \in 1..Len(GenDic) : ~Contains(GenDic[i].key, Lower(s))

\* C10: a waveform string with no 'c' and none of the keys is resolved to SIN
\* without an error, and SIN is what the call compares with the cache, writes
\* and caches.
C10_WaveformDefault ==
    (IsReConfig /\ call.args.waveform # NoneStr /\ NoKey(call.args.waveform)) =>
        /\ call.waveform = SIN
        /\ call.at # "Waveform"
        /\ (PreCache["Waveform"] = SIN) => "Waveform" \notin WrittenFields
        /\ (PreCache["Waveform"] # SIN /\ call.cmds # <<>>) =>
              /\ call.cmds[1] = TokCmd("Waveform", call.channel, SIN)
              /\ PostCache["Waveform"] = SIN
        /\ (PreCache["Waveform"] # SIN /\ call.cmds = <<>>) =>
              /\ call.failed = <<TokCmd("Waveform", call.channel, SIN)>>

\* 'zzz' with PULS cached: SIN was written and cached, and the call went on to
\* write the frequency.
C10_Witness ==
    /\ IsReConfig /\ call.outcome = "ok"
    /\ call.args.waveform = <<"z","z","z">>
    /\ PreCache["Waveform"] = PULS
    /\ call.cmds[1] = TokCmd("Waveform", call.channel, SIN)
    /\ PostCache["Waveform"] = SIN
    /\ "Frequency" \in WrittenFields

(* ------------------------ reading an Osci call ------------------------ *)

IsReConfigMeasure == call.op = "re_config_measure"

NoTypeKey(s) ==
    /\ ~Contains(<<"c">>, Lower(s))
    /\ \A i \in 1..Len(OsciDic) : ~Contains(OsciDic[i].key, Lower(s))

\* C7: every write of a re_config_measure call that went through is reflected
\* in config_measure, also when a later step of the call fails: after the
\* source write, config_measure['Source'] is the channel written.
C7_WriteThrough ==
    IsReConfigMeasure =>
        \A i \in 1..Len(call.cmds) :
            config_measure[call.cmds[i].field] = CmdValue(call.cmds[i])

\* C9: a measurement type string with no 'c' and none of the keys is resolved
\* to FREQ without an error, and FREQ is the type the call compares and writes.
C9_TypeDefault ==
    (IsReConfigMeasure /\ NoTypeKey(call.mtype)) =>
        /\ call.aux = FREQ
        /\ call.outcome # "UnboundLocalError"
        /\ (NoTransportFailure /\ call.pre.Type # FREQ) =>
              \E i \in 1..Len(call.cmds) : call.cmds[i] = TokCmd("Type", 0, FREQ)

\* The entries of the measurement table whose key is in the lowered string.
TypeMatches(s) ==
    {i \in 1..Len(OsciDic) : Contains(OsciDic[i].key, Lower(s))}

\* C11: for a measurement type string without 'c' that contains two or more
\* keys of the table, the recognition in re_config_measure yields the token of
\* the matching key declared last in the table, wherever the keys stand in
\* the string.
C11_TypeTieBreak ==
    (/\ IsReConfigMeasure
     /\ ~Contains(<<"c">>, Lower(call.mtype))
     /\ Cardinality(TypeMatches(call.mtype)) >= 2) =>
        /\ call.outcome # "UnboundLocalError"
        /\ call.aux = OsciDic[Max(TypeMatches(call.mtype))].value

\* 'maxmin': min stands last in the string, max is declared last; MAXI was
\* written.
C11_Witness ==
    /\ IsReConfigMeasure /\ call.outcome = "ok"
    /\ call.mtype = <<"m","a","x","m","i","n">>
    /\ call.aux = <<"M","A","X","I">>
    /\ call.cmds = <<TokCmd("Type", 0, <<"M","A","X","I">>)>>

\* The entries of the waveform table whose key is in the lowered string.
WaveformMatches(s) ==
    {i \in 1..Len(GenDic) : Contains(GenDic[i].key, Lower(s))}

\* C12: for a waveform string without 'c' that contains two or more keys of
\* the table mapping to different tokens, the recognition in re_config_output
\* yields the token of the matching key declared last in the table.
C12_WaveformTieBreak ==
    (/\ IsReConfig
     /\ call.args.waveform # NoneStr
     /\ ~Contains(<<"c">>, Lower(call.args.waveform))
     /\ Cardinality({GenDic[i].value :
                        i \in WaveformMatches(call.args.waveform)}) >= 2) =>
        call.waveform = GenDic[Max(WaveformMatches(call.args.waveform))].value

\* The commands of the call for a field, sent or failed.
CmdsFor(field) ==
    {call.cmds[i] : i \in {j \in 1..Len(call.cmds) : call.cmds[j].field = field}}
    \cup {call.failed[i] :
             i \in {j \in 1..Len(call.failed) :
                        /\ "field" \in DOMAIN call.failed[j]
                        /\ call.failed[j].field = field}}

\* C13: when re_config_output is called with a waveform that is not None, the
\* value it compares with the cache, writes and stores as Waveform is one of
\* SIN, PULS, RAMP, LOR, SINC, GAUS; a measurement type that re_config_measure
\* writes is one of the tokens of its table, and so is the cached type.
C13_ClosedTokens ==
    /\ (IsReConfig /\ call.args.waveform # NoneStr) =>
          /\ call.waveform \in {SIN, PULS, RAMP, LOR, SINC, GAUS}
          /\ \A c \in CmdsFor("Waveform") :
                c.tok = call.waveform /\ c.tok \in {SIN, PULS, RAMP, LOR, SINC, GAUS}
          /\ PostCache["Waveform"] \in {SIN, PULS, RAMP, LOR, SINC, GAUS}
          /\ call.outcome = "ok" => PostCache["Waveform"] = call.waveform
    /\ IsReConfigMeasure =>
          /\ \A c \in CmdsFor("Type") : c.tok \in OsciDicValues
          /\ config_measure.Type \in OsciDicValues

\* 'xgau' with PULS cached: GAUS was written and cached.
C13_Witness ==
    /\ IsReConfig /\ call.outcome = "ok"
    /\ call.args.waveform = <<"x","g","a","u">>
    /\ call.cmds = <<TokCmd("Waveform", 1, GAUS)>>
    /\ PostCache["Waveform"] = GAUS

\* C14: the dict that get_config_output returns, which is config_output at
\* connection time, has exactly the keys 1..nchannels, and each channel's entry
\* has the eight fields Status, Waveform, Frequency, Amplitude, Offset, Phase,
\* Duty Cycle and Symmetry, whether the duty cycle and symmetry queries answer
\* or raise.
C14_RefreshComplete ==
    ncalls = 0 =>
        /\ DOMAIN config_output = 1..nchannels
        /\ DOMAIN config_output_str = {}
        /\ \A ch \in DOMAIN config_output :
              DOMAIN config_output[ch] =
                 {"Status", "Waveform", "Frequency", "Amplitude", "Offset",
                  "Phase", "Duty Cycle", "Symmetry"}

\* C15: after a Gen.output call that returns normally, the cached Status of
\* the channel the call acted on is the status asked for, and the last command
\* of the call is the status command for that channel carrying int(status);
\* after any calls, the cached Status of every channel is the status last
\* written to the generator for it (the one found at connection time when none
\* was written).
C15_StatusTracksDevice ==
    /\ (IsOutput /\ call.outcome = "ok") =>
          LET ch == OutputChannel(call.args.channel) IN
          /\ call.channel = ch
          /\ config_output[ch]["Status"] = call.status
          /\ call.cmds # <<>>
          /\ call.cmds[Len(call.cmds)] =
                NumCmd("Status", ch, IF call.status THEN 1 ELSE 0)
    /\ \A ch \in DOMAIN config_output :
          config_output[ch]["Status"] = (gen[ch]["Status"] # 0)

\* The second call switches off, after a duty cycle write, the output that the
\* first call switched on.
C15_Witness ==
    /\ ncalls = 2
    /\ IsOutput /\ call.outcome = "ok"
    /\ ~call.status
    /\ call.pre[call.channel]["Status"]
    /\ Len(call.cmds) = 2
    /\ gen[call.channel]["Status"] = 0

(* ----------------------- reading a fwp_save call ---------------------- *)

NewNameDone == save.op = "new_name" /\ save.pc = "done"

FreeFileDone == save.op = "free_file" /\ save.pc = "done"

\* C16: new_name returns the name given when no path of that name exists, and
\* otherwise base + separator + i + extension for the smallest i >= 2 for which
\* no such path exists; the call returns.
C16_NewName ==
    /\ [](NewNameDone =>
             /\ save.name \notin save.files
             /\ save.arg \notin save.files => save.name = save.arg
             /\ save.arg \in save.files =>
                   \E i \in 2..(MaxFiles + 1) :
                      /\ save.name = NumberedName(save.arg, save.sep, i)
                      /\ \A j \in 2..(i - 1) :
                            NumberedName(save.arg, save.sep, j) \in save.files)
    /\ (save.op = "new_name" ~> save.pc = "done")

\* '/d/a.txt' and '/d/a_2.txt' exist, and '/d/a_3.txt' is returned.
C16_Witness ==
    /\ NewNameDone
    /\ save.arg = <<"/","d","/","a",".","t","x","t">>
    /\ save.files = {save.arg, <<"/","d","/","a","_","2",".","t","x","t">>}
    /\ save.name = <<"/","d","/","a","_","3",".","t","x","t">>

\* C17: the path free_file returns is not an existing file, lies in the
\* directory of my_file and has the extension of my_file.
C17_FreeFile ==
    FreeFileDone =>
        /\ save.name \notin save.files
        /\ dirname(save.name) = dirname(save.arg)
        /\ splitext(save.name)[2] = splitext(save.arg)[2]

\* A number taken with one decimal; a token or a truth value as it is.
OneDecimal(field, v) ==
    IF field \in {"Frequency", "Amplitude", "Offset", "Phase", "Duty Cycle",
                  "Symmetry"}
    THEN Fmt1f(v) ELSE v

\* What the generator holds for a field, as the driver reads it.
DeviceValue(ch, field) ==
    IF field = "Status" THEN gen[ch][field] # 0 ELSE gen[ch][field]

OrderIndex(field) ==
    IF field = "Status" THEN Len(Fields) + 1 ELSE FieldIndex(field)

\* C19: the commands of one Gen.output call, the one that failed included,
\* follow the order waveform, frequency, amplitude, offset, phase, duty cycle,
\* symmetry, status, each field at most once; a call that returns normally
\* ends with the status command.
C19_CommandOrder ==
    IsOutput =>
        LET all == call.cmds \o call.failed IN
        /\ \A i, j \in 1..Len(all) :
              i < j => OrderIndex(all[i].field) < OrderIndex(all[j].field)
        /\ call.outcome = "ok" =>
              /\ call.cmds # <<>>
              /\ call.cmds[Len(call.cmds)].field = "Status"

\* A call that wrote waveform, frequency, amplitude, offset, phase, symmetry
\* and status.
C19_Witness ==
    /\ IsOutput /\ call.outcome = "ok"
    /\ Len(call.cmds) = 7
    /\ call.cmds[1].field = "Waveform"
    /\ call.cmds[6].field = "Symmetry"
    /\ call.cmds[7].field = "Status"

\* C20: for each field given as None to re_config_output, directly or as a
\* keyword that a Gen.output call does not supply, the call emits no command
\* for the field and leaves its cache entry as it was; with waveform None the
\* cached waveform is the effective one: it is what duty cycle and symmetry
\* are validated against.
C20_OmittedUntouched ==
    (IsReConfig \/ IsOutput) =>
        /\ \A f \in FieldSet :
              Requested(f) = None =>
                 /\ CmdsFor(f) = {}
                 /\ CacheGet(PostCache, f) = CacheGet(PreCache, f)
        /\ call.args.waveform = NoneStr =>
              /\ call.waveform = PreCache["Waveform"]
              /\ (call.args.duty_cycle # None /\ NoTransportFailure) =>
                    (ValueErrorAt("Duty Cycle") <=> PreCache["Waveform"] # PULS)

\* A Gen.output call with only a duty cycle, on a channel with PULS cached
\* and a Duty Cycle entry: the duty cycle and the status were written, the
\* other entries are as before.
C20_Witness ==
    /\ IsOutput /\ call.outcome = "ok"
    /\ call.args.waveform = NoneStr /\ call.args.frequency = None
    /\ call.args.amplitude = None /\ call.args.symmetry = None
    /\ call.args.duty_cycle # None
    /\ Len(call.cmds) = 2 /\ call.cmds[1].field = "Duty Cycle"
    /\ PostCache["Frequency"] = PreCache["Frequency"]

\* C21: Gen.output emits the status command only when the status asked for
\* differs from the cached Status of the channel, so that a Gen.output call
\* made again with the same arguments emits no write command.
C21_StatusMinimal ==
    IsOutput =>
        /\ (/\ CmdsFor("Status") # {}
            /\ OutputChannel(call.args.channel) \in DOMAIN call.pre) =>
              call.pre[OutputChannel(call.args.channel)]["Status"] # call.status
        /\ call.before = "ok" => (call.cmds = <<>> /\ call.failed = <<>>)

\* C22: a re_config_measure call sends no query to the oscilloscope: the
\* cache is updated from what the call writes (Gen.re_config_output, which
\* holds no query at all, is the other half of the claim).
C22_NoReadQueries ==
    IsReConfigMeasure =>
        /\ call.queries = <<>>
        /\ \A i \in 1..Len(call.failed) : "query" \notin DOMAIN call.failed[i]

\* The token a measurement type string stands for: FREQ when it holds no key.
TypeToken(s) == IF NoTypeKey(s) THEN FREQ ELSE RecognizeType(s).aux

\* C23: a re_config_measure call that meets no transport failure emits the
\* source command exactly when the cached Source differs from the coerced
\* channel, and the type command exactly when the cached Type differs from the
\* token of the type asked for; the same call made again emits no write.
C23_MeasureMinimal ==
    (IsReConfigMeasure /\ NoTransportFailure) =>
        /\ CmdsFor("Source") # {} <=>
              call.pre.Source # MeasureChannel(call.args.channel)
        /\ CmdsFor("Type") # {} <=> call.pre.Type # TypeToken(call.mtype)
        /\ Len(call.cmds) <= 2
        /\ call.before = "ok" => call.cmds = <<>>

IsMeasure == call.op = "measure"

\* The call sent, or tried to send, the query of the measured value.
ValueAsked ==
    \/ \E i \in 1..Len(call.queries) : call.queries[i] = "MEASU:IMM:VAL?"
    \/ \E i \in 1..Len(call.failed) :
          /\ "query" \in DOMAIN call.failed[i]
          /\ call.failed[i].query = "MEASU:IMM:VAL?"

\* C24: Osci.measure queries the value only after re_config_measure has run to
\* its end (its two queries are the ones before), and then the oscilloscope's
\* source is the coerced channel and its type the token of the type asked
\* for; when re_config_measure raises, the value is not queried.
C24_MeasureAfterConfigure ==
    (IsMeasure /\ ValueAsked) =>
        /\ Len(call.queries) >= 2
        /\ call.queries[1] = "MEASU:IMM:SOU?"
        /\ call.queries[2] = "MEASU:IMM:TYP?"
        /\ \A i \in 1..2 : call.queries[i] # "MEASU:IMM:VAL?"
        /\ RecognizeType(call.mtype).outcome = "ok"
        /\ osci.Source = MeasureChannel(call.args.channel)
        /\ osci.Type = RecognizeType(call.mtype).aux

\* The second measure changed source and type, then queried value and units.
C24_Witness ==
    /\ IsMeasure /\ call.outcome = "ok" /\ ncalls = 2
    /\ Len(call.cmds) = 2
    /\ call.queries = <<"MEASU:IMM:SOU?", "MEASU:IMM:TYP?",
                        "MEASU:IMM:VAL?", "MEASU:IMM:UNI?">>
    /\ osci.Type # call.pre.Type

(* --------------------- reading interleaved Gen calls ------------------ *)

AllDone == running # NoRunning /\ \A t \in Callers : running[t].pc = "done"

\* The cached Frequency of channel 1 is not what the generator last received.
CacheLost == config_output[1]["Frequency"] # gen[1]["Frequency"]

\* C25: nothing keeps two re_config_output calls on one channel apart: a call
\* can compare with the cache while the other is between its comparison and
\* its assignment to the cache.  When both have ended with the cached
\* Frequency different from the one the generator last received, both wrote
\* and they asked for different frequencies: the hazard is the interleaving
\* of two writing calls, and the state C25_Witness is reachable.
C25_LostUpdate ==
    /\ \A t \in DOMAIN running :
          running[t].pc = "compare" => ENABLED RaceCompare(t)
    /\ (AllDone /\ CacheLost) =>
          /\ \A t \in Callers : running[t].wrote
          /\ \A t, u \in Callers :
                t # u => running[t].frequency # running[u].frequency

\* Both calls have ended; the generator last received one frequency and the
\* cache holds the other.
C25_Witness ==
    /\ AllDone
    /\ CacheLost
    /\ \E t \in Callers : gen[1]["Frequency"] = running[t].frequency
    /\ \E t \in Callers : config_output[1]["Frequency"] = running[t].frequency

\* The fields whose blocks come before the duty cycle block.
UngatedFields == {"Waveform", "Frequency", "Amplitude", "Offset", "Phase"}

\* C26: when Gen.output raises ValueError for a duty cycle or a symmetry that
\* the waveform of the call does not allow, every waveform, frequency,
\* amplitude, offset and phase asked for in the call and different from the
\* cache has been written to the generator and stored in the cache, no status
\* command has been sent and the cached Status of every channel is unchanged.
C26_GatingNotTransactional ==
    (IsOutput /\ call.outcome = "ValueError") =>
        /\ call.at \in {"Duty Cycle", "Symmetry"}
        /\ \A f \in UngatedFields \cap DifferingFields :
              /\ f \in WrittenFields
              /\ CacheGet(PostCache, f) = Requested(f)
              /\ <<gen[call.channel][f]>> = Requested(f)
        /\ CmdsFor("Status") = {}
        /\ \A d \in DOMAIN config_output :
              CacheGet(config_output[d], "Status") = CacheGet(call.pre[d], "Status")

\* Gen.output raised ValueError after it wrote the waveform and a frequency,
\* asked to change the status of the channel.
C26_Witness ==
    /\ IsOutput /\ call.outcome = "ValueError"
    /\ {"Waveform", "Frequency"} \subseteq WrittenFields
    /\ OutputChannel(call.args.channel) \in DOMAIN call.pre
    /\ call.pre[OutputChannel(call.args.channel)]["Status"] # call.status

\* C27: a Gen.output or Gen.re_config_output call emits commands for one
\* channel only, the channel its argument was coerced to, and leaves the
\* cache entry of every other channel as it was.
C27_ChannelIsolation ==
    (IsReConfig \/ IsOutput) =>
        /\ \A i \in 1..Len(call.cmds) : call.cmds[i].ch = call.channel
        /\ \A i \in 1..Len(call.failed) :
              "ch" \in DOMAIN call.failed[i] => call.failed[i].ch = call.channel
        /\ \A d \in DOMAIN config_output \ {call.channel} :
              config_output[d] = call.pre[d]

CRM == <<"C","R","M">>

CMEAN == <<"C","M","E","A","N">>

HasC(s) == Contains(<<"c">>, Lower(s))

HasRms(s) == Contains(<<"r","m","s">>, Lower(s))

\* C28: for a measurement type string that holds 'c' or 'C' anywhere,
\* re_config_measure takes CRM as the type when the lowered string holds
\* 'rms' and CMEAN otherwise, whatever keys of the table the string holds,
\* and the type command it sends, if any, carries that token.
C28_CompleteCycleBranch ==
    (IsReConfigMeasure /\ HasC(call.mtype)) =>
        /\ call.outcome # "UnboundLocalError"
        /\ call.aux = IF HasRms(call.mtype) THEN CRM ELSE CMEAN
        /\ \A c \in CmdsFor("Type") : c.tok = call.aux

\* 'Cfreq' was given: the key freq is in the string, CMEAN was written.
C28_Witness ==
    /\ IsReConfigMeasure /\ call.outcome = "ok"
    /\ call.mtype = <<"C","f","r","e","q">>
    /\ call.aux = CMEAN
    /\ call.cmds = <<TokCmd("Type", 0, CMEAN)>>

\* C29: a token of a table given as the keyword is recognised as itself: a
\* waveform token given to re_config_output is the waveform of the call, a
\* measurement type token given to re_config_measure is the type of the call,
\* and a token equal to the cached one causes no write for that field.
C29_TokensFixedPoints ==
    /\ (IsReConfig /\ call.args.waveform \in GenDicValues) =>
          /\ call.waveform = call.args.waveform
          /\ PreCache["Waveform"] = call.args.waveform =>
                CmdsFor("Waveform") = {}
    /\ (IsReConfigMeasure /\ call.mtype \in OsciDicValues) =>
          /\ call.outcome # "UnboundLocalError"
          /\ call.aux = call.mtype
          /\ call.pre.Type = call.mtype => CmdsFor("Type") = {}

BothGated == call.args.duty_cycle # None /\ call.args.symmetry # None

\* C30: a re_config_output call given both a duty cycle and a symmetry, as a
\* call that gives no argument is, does not return normally: it raises, and
\* unless the transport fails or the cache entry is missing it raises
\* ValueError in the duty cycle block when the waveform of the call is not
\* PULS and in the symmetry block when it is.
C30_DutyAndSymmetryExclusive ==
    (IsReConfig /\ BothGated) =>
        /\ call.outcome \in {"ValueError", "KeyError", "TransportError"}
        /\ call.outcome = "ValueError" =>
              call.at = IF call.waveform # PULS THEN "Duty Cycle" ELSE "Symmetry"
        /\ call.outcome = "KeyError" => call.waveform = PULS
        /\ "Symmetry" \notin WrittenFields

\* The call with the default arguments on a channel that holds SIN: it wrote
\* nothing and raised ValueError in the duty cycle block.
C30_Witness ==
    /\ IsReConfig
    /\ call.args = DefaultArgs
    /\ call.pre[1]["Waveform"] = SIN
    /\ ValueErrorAt("Duty Cycle")
    /\ call.cmds = <<>>

====
